---- MODULE Spec2Model ----
(***************************************************************************)
(* FIFO lot matching (calcular_fifo) and the progressive capital-gains    *)
(* scale (calcular_irpf_ganancias) and the flat income rate               *)
(* (calcular_irpf_ingresos) of logic/tax_calculator.py.                   *)
(*                                                                         *)
(* Numbers.  Python floats are modelled by exact integers on fixed grids: *)
(*   - a quantity is a whole number of grains, one grain being 1e-9, the  *)
(*     tolerance of the two epsilon tests, so that `x <= 1e-9` is         *)
(*     `x <= EPS` and the band 0 < x <= 1e-9 is the single value x = 1;   *)
(*   - valor_eur and fee_eur are whole numbers of EUR;                    *)
(*   - a unit cost, and every amount derived from one (coste_adq,         *)
(*     ganancia), is a numerator over CostDen, the least common multiple  *)
(*     of the quantities that occur, so that coste_total / cantidad is    *)
(*     exact.  Binary rounding of IEEE doubles is not modelled.           *)
(*   - an amount of df_ganancias is a whole number of 1/Centimo cents;   *)
(*     irpf accumulates amount x percent, in hundredths of that.          *)
(* A cell that may hold the Python object None is an option: <<>> is None *)
(* and <<x>> is the value x.                                               *)
(***************************************************************************)
EXTENDS Integers, Sequences, FiniteSets, TLC

\* ------------------------------------------------------------ bounds
MaxRows == 3
MaxDate == 2
MaxQty == 3
\* grains in one whole unit of the worked example of the FIFO order
Unit == 2
\* rows of df_ganancias
MaxGan == 2
\* grid of the amounts of df_ganancias: this many parts to one cent
Centimo == 3
\* rows of df_ingresos
MaxIng == 2
\* calls of calcular_fifo on one frame
MaxPasadas == 2

\* ------------------------------------------------- program constants
\* 1e-9, in grains (lines 68 and 72)
EPS == 1

None == <<>>
Some(x) == <<x>>

Min(a, b) == IF a <= b THEN a ELSE b

\* ------------------------------------------------------------ inputs
\* The rows a caller can put in df_operaciones.  BaseRows are well-formed
\* purchases and sales of one asset; the other sets vary one column each.
EjemploRows ==
    { [fecha |-> 1, tipo |-> "Compra", cripto |-> Some("BTC"),
       cantidad |-> 2 * Unit, valor_eur |-> Some(2 * 100), fee_eur |-> 0],
      [fecha |-> 1, tipo |-> "Compra", cripto |-> Some("BTC"),
       cantidad |-> 3 * Unit, valor_eur |-> Some(3 * 200), fee_eur |-> 0],
      [fecha |-> MaxDate, tipo |-> "Venta", cripto |-> Some("BTC"),
       cantidad |-> 4 * Unit, valor_eur |-> Some(1000), fee_eur |-> 0] }

BaseRows ==
    [fecha : 1..MaxDate, tipo : {"Compra", "Venta"}, cripto : {Some("BTC")},
     cantidad : 1..MaxQty, valor_eur : {Some(12)}, fee_eur : {0}]

FeeRows ==
    [fecha : {1}, tipo : {"Compra", "Venta"}, cripto : {Some("BTC")},
     cantidad : {2}, valor_eur : {Some(12)}, fee_eur : {2}]

TipoRows ==
    [fecha : {MaxDate}, tipo : {"Donacion", "Ingreso"}, cripto : {Some("BTC")},
     cantidad : {2}, valor_eur : {Some(12)}, fee_eur : {0}]

CriptoRows ==
    [fecha : {1}, tipo : {"Compra", "Venta"},
     cripto : {Some("btc"), Some("eth"), Some(""), None},
     cantidad : {2}, valor_eur : {Some(12)}, fee_eur : {0}]

CantidadRows ==
    [fecha : {1}, tipo : {"Compra", "Venta"}, cripto : {Some("BTC")},
     cantidad : {0, -1}, valor_eur : {Some(12)}, fee_eur : {0}]

ValorRows ==
    [fecha : {1}, tipo : {"Compra", "Venta"}, cripto : {Some("BTC")},
     cantidad : {2}, valor_eur : {None}, fee_eur : {0}]

Rows == BaseRows \cup FeeRows \cup TipoRows \cup CriptoRows
        \cup CantidadRows \cup ValorRows \cup EjemploRows

RECURSIVE GCD(_, _)
GCD(a, b) == IF b = 0 THEN a ELSE GCD(b, a % b)

RECURSIVE LCMOf(_)
LCMOf(S) ==
    IF S = {} THEN 1
    ELSE LET x == CHOOSE y \in S : TRUE
             r == LCMOf(S \ {x})
         IN  (x * r) \div GCD(x, r)

\* denominator of every unit cost
CostDen == LCMOf({r.cantidad : r \in {q \in Rows : q.cantidad > 0}})

\* ------------------------------------------------------------- state
VARIABLES
    \* calcular_fifo
    df_operaciones, \* the caller's frame: a sequence of rows, never written
    df,             \* the sorted copy, as the sequence of index labels of
                    \* df_operaciones in iteration order
    pc,             \* "sort", "iter", "while", "done", "raised"; "off"
    i,              \* position of the for loop in df
    colas,          \* dict: lower-cased symbol -> deque of lots
    ventas,         \* list of disposal records
    restante, coste_adq, lotes_info, \* locals of the Venta/Donacion branch
    resultado,      \* the returned frame (a sequence of records)
    cola_inicio,    \* history: colas[cripto] as the while loop found it;
                    \* no action reads it
    orden,          \* what sort_values yields for df_operaciones: the sort
                    \* is a function of the frame, which one is left open
    pasada,         \* number of the call of calcular_fifo on df_operaciones
    resultado_previo, \* history: what the call before this one returned
    \* history of the call, per symbol; no action reads it
    adquirido,      \* quantity of the purchases processed
    casado,         \* quantity the disposals recorded took from lots
    desalojos,      \* number of lots removed from the queue
    \* calcular_irpf_ganancias
    df_ganancias,   \* the column ganancia_perdida_eur of the argument
    pc_irpf,        \* "sum", "for", "done"; "off"
    total_gan, restante_gan, irpf,
    tramo,          \* position of the for loop in tramos
    salida,         \* the returned one-row frame
    \* calcular_irpf_ingresos
    df_ingresos,    \* the cells of the column valor_eur of the argument, one
                    \* per row; None is a cell without a value
    con_valor_eur,  \* 'valor_eur' in df_ingresos.columns
    pc_ing,         \* "test", "sum", "done"; "off"
    total_ing,
    salida_ing      \* the returned one-row frame

pasadaVars == <<orden, pasada, resultado_previo>>

contVars == <<adquirido, casado, desalojos>>

fifoVars == <<df_operaciones, df, pc, i, colas, ventas,
              restante, coste_adq, lotes_info, resultado, cola_inicio,
              pasadaVars, contVars>>

irpfVars == <<df_ganancias, pc_irpf, total_gan, restante_gan, irpf, tramo, salida>>

ingVars == <<df_ingresos, con_valor_eur, pc_ing, total_ing, salida_ing>>

vars == <<fifoVars, irpfVars, ingVars>>

\* ------------------------------------------------ pure parts of the code
\* str(x): the text of a cell; the text of None is "None"
Str(c) == IF c = None THEN "None" ELSE c[1]

\* variant: the symbol is used as it is written
SinMinusculas(s) == s

\* str.lower() on the symbols that occur
Lower(s) ==
    CASE s = "BTC" -> "btc"
      [] s = "None" -> "none"
      [] OTHER -> s

\* cripto = str(f['cripto']).lower()
Cripto(f) == Lower(Str(f.cripto))

\* float(x) raises TypeError on None
FloatRaises(c) == c = None
Float(c) == c[1]

\* if cantidad <= 0 or not cripto: continue
Descartada(f) == f.cantidad <= 0 \/ Cripto(f) = ""

\* `if cripto not in colas: colas[cripto] = deque()`
ConCola(q, cripto) ==
    IF cripto \in DOMAIN q THEN q ELSE q @@ (cripto :> <<>>)

\* variant: the fee is left out of the cost of a purchase
CosteUnitSinComision(valor, fee, cantidad) ==
    IF cantidad # 0 THEN (valor * CostDen) \div cantidad ELSE 0

\* coste_unit = (valor + fee) / cantidad if cantidad else 0.0, over CostDen
CosteUnit(valor, fee, cantidad) ==
    IF cantidad # 0 THEN ((valor + fee) * CostDen) \div cantidad ELSE 0

NuevoLote(f) ==
    [cantidad_disponible |-> f.cantidad,
     coste_unit |-> CosteUnit(Float(f.valor_eur), f.fee_eur, f.cantidad),
     fecha_compra |-> f.fecha]

\* variant: what is outstanding is taken, whatever the lot holds
TomadosRestante(rest, lote) == rest

\* variant: the whole lot is taken, whatever is outstanding
TomadosTodo(rest, lote) == lote.cantidad_disponible

\* tomados = min(restante, lote['cantidad_disponible'])
Tomados(rest, lote) == Min(rest, lote.cantidad_disponible)

\* variant: the newest lot is taken from (LIFO)
ConsumirUltimo(cola, tomados) ==
    LET n == Len(cola)
        queda == cola[n].cantidad_disponible - tomados
    IN  IF queda <= EPS
        THEN SubSeq(cola, 1, n - 1)
        ELSE [cola EXCEPT ![n].cantidad_disponible = queda]

\* variant: a lot is evicted only when nothing at all is left of it
ConsumirSinTolerancia(cola, tomados) ==
    LET queda == cola[1].cantidad_disponible - tomados
    IN  IF queda = 0
        THEN Tail(cola)
        ELSE <<[cola[1] EXCEPT !.cantidad_disponible = queda]>> \o Tail(cola)

\* variant: an exhausted lot is evicted only once it is negative
ConsumirSinDesalojo(cola, tomados) ==
    LET queda == cola[1].cantidad_disponible - tomados
    IN  IF queda < 0
        THEN Tail(cola)
        ELSE <<[cola[1] EXCEPT !.cantidad_disponible = queda]>> \o Tail(cola)

\* lote['cantidad_disponible'] -= tomados, then popleft() when <= 1e-9
ConsumirCabeza(cola, tomados) ==
    LET queda == cola[1].cantidad_disponible - tomados
    IN  IF queda <= EPS
        THEN Tail(cola)
        ELSE <<[cola[1] EXCEPT !.cantidad_disponible = queda]>> \o Tail(cola)

\* f"{x:.8f}": a quantity to 8 decimals, i.e. to the nearest 10 grains,
\* ties to even; the result is in units of 1e-8
Fmt8(x) ==
    LET d == x \div 10
        r == x % 10
    IN  IF r > 5 \/ (r = 5 /\ d % 2 = 1) THEN d + 1 ELSE d

\* f"{tomados:.8f}@{lote['fecha_compra']}@{lote['coste_unit']:.2f}"
\* (the unit cost is kept as its exact numerator: two decimals of EUR per
\* whole unit are finer than the cost grid of the model)
LoteInfo(tomados, lote) == <<Fmt8(tomados), lote.fecha_compra, lote.coste_unit>>

\* variant: any quantity left unmatched is noted, however small
NotaSinTolerancia(rest, cripto) ==
    IF rest > 0 THEN <<"Sin historico para", Fmt8(rest), cripto>> ELSE <<>>

\* variant: lines 73 and 74 swapped, restante is reset before it is named
NotaTrasReset(rest, cripto) ==
    IF rest > EPS THEN <<"Sin historico para", Fmt8(0), cripto>> ELSE <<>>

\* nota = f"Sin historico para {restante:.8f} {cripto}" if restante > 1e-9
Nota(rest, cripto) ==
    IF rest > EPS THEN <<"Sin historico para", Fmt8(rest), cripto>> ELSE <<>>

\* ganancia = valor_neto - coste_adq, over CostDen
Ganancia(valor_neto, coste) == valor_neto * CostDen - coste

Registro(f, coste, rest, info) ==
    [fecha_venta |-> f.fecha,
     cripto |-> Cripto(f),
     tipo_operacion |-> f.tipo,
     cantidad_vendida |-> f.cantidad,
     valor_transmision_bruto_eur |-> Float(f.valor_eur),
     comision_venta_eur |-> f.fee_eur,
     valor_transmision_neto_eur |-> Float(f.valor_eur) - f.fee_eur,
     coste_adquisicion_total_eur |-> coste,
     ganancia_perdida_eur |-> Ganancia(Float(f.valor_eur) - f.fee_eur, coste),
     nota |-> Nota(rest, Cripto(f)),
     lotes_origen_info |-> IF info = <<>> THEN <<"N/A">> ELSE info]

\* df.sort_values('fecha') with the default kind='quicksort', which is not
\* a stable sort: any order of the index labels that is ascending in fecha
Ordenaciones(d) ==
    {p \in [1..Len(d) -> 1..Len(d)] :
        /\ \A a, b \in 1..Len(d) : a # b => p[a] # p[b]
        /\ \A a, b \in 1..Len(d) : a < b => d[p[a]].fecha <= d[p[b]].fecha}

\* variant: the dict of queues is kept from one call to the next
ColasHeredadas == colas

\* colas: dict[str, deque] = {}
ColasNuevas == <<>>

\* the symbols a queue can be keyed by
Simbolos == {Cripto(r) : r \in Rows}

\* nothing bought, matched or removed yet
SinMovimientos == [c \in Simbolos |-> 0]

\* the row the for loop is at
Fila == df_operaciones[df[i]]


\* ---------------------------------------------- calcular_irpf_ganancias
Euro == 100 * Centimo

\* the amounts a row of df_ganancias can hold
Ganancias ==
    {-500 * Euro, -Euro, -2, -1, 0, 1, 2, Euro, 6000 * Euro, 6001 * Euro,
     44000 * Euro, 50000 * Euro, 150000 * Euro, 200001 * Euro}

\* the accumulators stay within 32 bits up to this total
GanCap == 200002 * Euro

RECURSIVE Suma(_)
Suma(s) == IF s = <<>> THEN 0 ELSE s[1] + Suma(Tail(s))

\* df['ganancia_perdida_eur'].sum() if not df.empty else 0.0
TotalGan(d) == IF d = <<>> THEN 0 ELSE Suma(d)

\* variant: the upper ends of the brackets taken for their widths
TramosAcumulados ==
    << [limite |-> Some(6000 * Euro), tipo |-> 19],
       [limite |-> Some(50000 * Euro), tipo |-> 21],
       [limite |-> Some(200000 * Euro), tipo |-> 23],
       [limite |-> None, tipo |-> 26] >>

\* tramos: (width, rate in percent); a limite of None is float('inf')
Tramos ==
    << [limite |-> Some(6000 * Euro), tipo |-> 19],
       [limite |-> Some((50000 - 6000) * Euro), tipo |-> 21],
       [limite |-> Some((200000 - 50000) * Euro), tipo |-> 23],
       [limite |-> None, tipo |-> 26] >>

\* variant: the loop stops only on exactly nothing left
AgotadoSoloCero(rest) == rest = 0

\* if restante <= 0: break
Agotado(rest) == rest <= 0

\* aplicable = min(restante, limite)
Aplicable(rest, limite) == IF limite = None THEN rest ELSE Min(rest, limite[1])

\* round(x, 2) of the amount x / den cents: the nearest cent, ties to even
Round2(x, den) ==
    LET q == x \div den
        r == x % den
    IN  IF 2 * r > den \/ (2 * r = den /\ q % 2 = 1) THEN q + 1 ELSE q

\* ----------------------------------------------- calcular_irpf_ingresos
\* the cells a row of df_ingresos can hold in valor_eur
Ingresos ==
    {None, Some(-Euro), Some(0), Some(1), Some(2), Some(50 * Centimo),
     Some(Euro), Some(500 * Euro), Some(1000 * Euro)}

\* Series.sum(): cells without a value are skipped
RECURSIVE SumaValores(_)
SumaValores(d) ==
    IF d = <<>> THEN 0
    ELSE (IF d[1] = None THEN 0 ELSE d[1][1]) + SumaValores(Tail(d))

\* tipo = 0.19, in percent
TipoIngresos == 19

\* variant: the cents beyond the second decimal are cut off
CuotaTruncada(total) == (total * TipoIngresos) \div (100 * Centimo)

\* round(total * tipo, 2), in cents
CuotaIngresos(total) == Round2(total * TipoIngresos, 100 * Centimo)

\* ------------------------------------------------------------ actions
FifoInit ==
    /\ df_operaciones \in UNION {[1..n -> Rows] : n \in 0..MaxRows}
    /\ orden \in Ordenaciones(df_operaciones)
    /\ pasada = 1
    /\ resultado_previo = <<>>
    /\ adquirido = SinMovimientos
    /\ casado = SinMovimientos
    /\ desalojos = SinMovimientos
    /\ df = <<>>
    /\ pc = "sort"
    /\ i = 0
    /\ colas = <<>>
    /\ ventas = <<>>
    /\ restante = 0
    /\ coste_adq = 0
    /\ lotes_info = <<>>
    /\ resultado = <<>>
    /\ cola_inicio = <<>>

FifoOff ==
    /\ df_operaciones = <<>>
    /\ orden = <<>>
    /\ pasada = 0
    /\ resultado_previo = <<>>
    /\ adquirido = SinMovimientos
    /\ casado = SinMovimientos
    /\ desalojos = SinMovimientos
    /\ df = <<>>
    /\ pc = "off"
    /\ i = 0
    /\ colas = <<>>
    /\ ventas = <<>>
    /\ restante = 0
    /\ coste_adq = 0
    /\ lotes_info = <<>>
    /\ resultado = <<>>
    /\ cola_inicio = <<>>

IrpfInit ==
    /\ df_ganancias \in {d \in UNION {[1..n -> Ganancias] : n \in 0..MaxGan} :
                            Suma(d) <= GanCap}
    /\ pc_irpf = "sum"
    /\ total_gan = 0
    /\ restante_gan = 0
    /\ irpf = 0
    /\ tramo = 0
    /\ salida = <<>>

IrpfOff ==
    /\ df_ganancias = <<>>
    /\ pc_irpf = "off"
    /\ total_gan = 0
    /\ restante_gan = 0
    /\ irpf = 0
    /\ tramo = 0
    /\ salida = <<>>

\* lines 22-27: copy, sort by date, fresh queues and record list
SortValues ==
    /\ pc = "sort"
    /\ df' = orden
    /\ i' = 1
    /\ colas' = ColasNuevas
    /\ ventas' = <<>>
    /\ pc' = "iter"
    /\ UNCHANGED <<df_operaciones, restante, coste_adq, lotes_info, resultado,
                   cola_inicio>>
    /\ adquirido' = SinMovimientos
    /\ casado' = SinMovimientos
    /\ desalojos' = SinMovimientos
    /\ UNCHANGED <<pasadaVars, irpfVars, ingVars>>

\* line 33: float(None) raises TypeError, which nothing catches
RaiseTypeError ==
    /\ pc = "iter"
    /\ i <= Len(df)
    /\ FloatRaises(Fila.valor_eur)
    /\ pc' = "raised"
    /\ UNCHANGED <<df_operaciones, df, i, colas, ventas,
                   restante, coste_adq, lotes_info, resultado, cola_inicio>>
    /\ UNCHANGED contVars
    /\ UNCHANGED <<pasadaVars, irpfVars, ingVars>>

\* lines 37-38
Descartar ==
    /\ pc = "iter"
    /\ i <= Len(df)
    /\ ~FloatRaises(Fila.valor_eur)
    /\ Descartada(Fila)
    /\ i' = i + 1
    /\ UNCHANGED <<df_operaciones, df, pc, colas, ventas,
                   restante, coste_adq, lotes_info, resultado, cola_inicio>>
    /\ UNCHANGED contVars
    /\ UNCHANGED <<pasadaVars, irpfVars, ingVars>>

\* lines 40-52
Compra ==
    /\ pc = "iter"
    /\ i <= Len(df)
    /\ ~FloatRaises(Fila.valor_eur)
    /\ ~Descartada(Fila)
    /\ Fila.tipo = "Compra"
    /\ LET c == Cripto(Fila)
           q == ConCola(colas, c)
       IN  colas' = [q EXCEPT ![c] = Append(@, NuevoLote(Fila))]
    /\ i' = i + 1
    /\ UNCHANGED <<df_operaciones, df, pc, ventas,
                   restante, coste_adq, lotes_info, resultado, cola_inicio>>
    /\ adquirido' = [adquirido EXCEPT ![Cripto(Fila)] = @ + Fila.cantidad]
    /\ UNCHANGED <<casado, desalojos>>
    /\ UNCHANGED <<pasadaVars, irpfVars, ingVars>>

\* lines 40-41 and 55-59
IniciarVenta ==
    /\ pc = "iter"
    /\ i <= Len(df)
    /\ ~FloatRaises(Fila.valor_eur)
    /\ ~Descartada(Fila)
    /\ Fila.tipo \in {"Venta", "Donacion"}
    /\ colas' = ConCola(colas, Cripto(Fila))
    /\ restante' = Fila.cantidad
    /\ coste_adq' = 0
    /\ lotes_info' = <<>>
    /\ cola_inicio' = colas'[Cripto(Fila)]
    /\ pc' = "while"
    /\ UNCHANGED <<df_operaciones, df, i, ventas, resultado>>
    /\ UNCHANGED contVars
    /\ UNCHANGED <<pasadaVars, irpfVars, ingVars>>

\* lines 61-69: one iteration of the while loop
ConsumirLote ==
    /\ pc = "while"
    /\ restante > 0
    /\ colas[Cripto(Fila)] # <<>>
    /\ LET c == Cripto(Fila)
           lote == colas[c][1]
           tomados == Tomados(restante, lote)
       IN  /\ coste_adq' = coste_adq + tomados * lote.coste_unit
           /\ lotes_info' = Append(lotes_info, LoteInfo(tomados, lote))
           /\ colas' = [colas EXCEPT ![c] = ConsumirCabeza(@, tomados)]
           /\ restante' = restante - tomados
    /\ UNCHANGED <<df_operaciones, df, pc, i, ventas, resultado, cola_inicio>>
    /\ desalojos' = [desalojos EXCEPT ![Cripto(Fila)] =
                        @ + Len(colas[Cripto(Fila)]) - Len(colas'[Cripto(Fila)])]
    /\ UNCHANGED <<adquirido, casado>>
    /\ UNCHANGED <<pasadaVars, irpfVars, ingVars>>

\* lines 71-90: the loop is over; note, gain, record
EmitirVenta ==
    /\ pc = "while"
    /\ ~(restante > 0 /\ colas[Cripto(Fila)] # <<>>)
    /\ ventas' = Append(ventas, Registro(Fila, coste_adq, restante, lotes_info))
    /\ restante' = IF restante > EPS THEN 0 ELSE restante
    /\ i' = i + 1
    /\ pc' = "iter"
    /\ UNCHANGED <<df_operaciones, df, colas, coste_adq, lotes_info, resultado,
                   cola_inicio>>
    /\ casado' = [casado EXCEPT ![Cripto(Fila)] = @ + Fila.cantidad - restante]
    /\ UNCHANGED <<adquirido, desalojos>>
    /\ UNCHANGED <<pasadaVars, irpfVars, ingVars>>

\* lines 40-41, then neither branch: "Ingreso" and any other tipo
OtroTipo ==
    /\ pc = "iter"
    /\ i <= Len(df)
    /\ ~FloatRaises(Fila.valor_eur)
    /\ ~Descartada(Fila)
    /\ Fila.tipo \notin {"Compra", "Venta", "Donacion"}
    /\ colas' = ConCola(colas, Cripto(Fila))
    /\ i' = i + 1
    /\ UNCHANGED <<df_operaciones, df, pc, ventas,
                   restante, coste_adq, lotes_info, resultado, cola_inicio>>
    /\ UNCHANGED contVars
    /\ UNCHANGED <<pasadaVars, irpfVars, ingVars>>

\* line 92
Return ==
    /\ pc = "iter"
    /\ i > Len(df)
    /\ resultado' = ventas
    /\ pc' = "done"
    /\ UNCHANGED <<df_operaciones, df, i, colas, ventas,
                   restante, coste_adq, lotes_info, cola_inicio>>
    /\ UNCHANGED contVars
    /\ UNCHANGED <<pasadaVars, irpfVars, ingVars>>

\* the caller calls calcular_fifo once more, on the same frame
OtraPasada ==
    /\ pc = "done"
    /\ pasada < MaxPasadas
    /\ pasada' = pasada + 1
    /\ resultado_previo' = resultado
    /\ pc' = "sort"
    /\ UNCHANGED <<df_operaciones, df, i, colas, ventas, restante, coste_adq,
                   lotes_info, resultado, cola_inicio, orden>>
    /\ UNCHANGED contVars
    /\ UNCHANGED <<irpfVars, ingVars>>

\* lines 124-126
Sumar ==
    /\ pc_irpf = "sum"
    /\ total_gan' = TotalGan(df_ganancias)
    /\ restante_gan' = total_gan'
    /\ irpf' = 0
    /\ tramo' = 1
    /\ pc_irpf' = "for"
    /\ UNCHANGED <<df_ganancias, salida>>
    /\ UNCHANGED <<fifoVars, ingVars>>

\* lines 136-141: one bracket
AplicarTramo ==
    /\ pc_irpf = "for"
    /\ tramo <= Len(Tramos)
    /\ ~Agotado(restante_gan)
    /\ LET aplicable == Aplicable(restante_gan, Tramos[tramo].limite)
       IN  /\ irpf' = irpf + aplicable * Tramos[tramo].tipo
           /\ restante_gan' = restante_gan - aplicable
    /\ tramo' = tramo + 1
    /\ UNCHANGED <<df_ganancias, pc_irpf, total_gan, salida>>
    /\ UNCHANGED <<fifoVars, ingVars>>

\* lines 137-138 (break) or the brackets are over, then lines 143-146
Devolver ==
    /\ pc_irpf = "for"
    /\ (tramo > Len(Tramos) \/ Agotado(restante_gan))
    /\ salida' = [base_imponible_eur |-> Round2(total_gan, Centimo),
                  irpf_ganancias_eur |-> Round2(irpf, 100 * Centimo)]
    /\ pc_irpf' = "done"
    /\ UNCHANGED <<df_ganancias, total_gan, restante_gan, irpf, tramo>>
    /\ UNCHANGED <<fifoVars, ingVars>>

IngInit ==
    /\ con_valor_eur \in BOOLEAN
    /\ df_ingresos \in UNION {[1..n -> IF con_valor_eur THEN Ingresos ELSE {None}] :
                                n \in 0..MaxIng}
    /\ pc_ing = "test"
    /\ total_ing = 0
    /\ salida_ing = <<>>

IngOff ==
    /\ con_valor_eur = TRUE
    /\ df_ingresos = <<>>
    /\ pc_ing = "off"
    /\ total_ing = 0
    /\ salida_ing = <<>>

\* lines 102-103: an empty frame, or one without the column
IngresosVacio ==
    /\ pc_ing = "test"
    /\ (df_ingresos = <<>> \/ ~con_valor_eur)
    /\ salida_ing' = [total_ingresos_eur |-> 0, irpf_ingresos_eur |-> 0]
    /\ pc_ing' = "done"
    /\ UNCHANGED <<df_ingresos, con_valor_eur, total_ing>>
    /\ UNCHANGED <<fifoVars, irpfVars>>

\* line 105
IngresosSumar ==
    /\ pc_ing = "test"
    /\ ~(df_ingresos = <<>> \/ ~con_valor_eur)
    /\ total_ing' = SumaValores(df_ingresos)
    /\ pc_ing' = "sum"
    /\ UNCHANGED <<df_ingresos, con_valor_eur, salida_ing>>
    /\ UNCHANGED <<fifoVars, irpfVars>>

\* lines 106-110
IngresosDevolver ==
    /\ pc_ing = "sum"
    /\ salida_ing' = [total_ingresos_eur |-> total_ing,
                      irpf_ingresos_eur |-> CuotaIngresos(total_ing)]
    /\ pc_ing' = "done"
    /\ UNCHANGED <<df_ingresos, con_valor_eur, total_ing>>
    /\ UNCHANGED <<fifoVars, irpfVars>>

\* ---------------------------------------------------- specifications
Init == FifoInit /\ IrpfOff /\ IngOff

Next ==
    \/ SortValues
    \/ RaiseTypeError
    \/ Descartar
    \/ Compra
    \/ IniciarVenta
    \/ ConsumirLote
    \/ EmitirVenta
    \/ OtroTipo
    \/ Return

Spec == Init /\ [][Next]_vars

\* calcular_fifo is straight-line synchronous code: a statement that can
\* run does run
SpecJusta == Init /\ [][Next]_vars /\ WF_vars(Next)

\* calcular_fifo called again on the frame of the call before
NextDosPasadas ==
    \/ Next
    \/ OtraPasada

SpecDosPasadas == Init /\ [][NextDosPasadas]_vars

InitIrpf == FifoOff /\ IrpfInit /\ IngOff

NextIrpf ==
    \/ Sumar
    \/ AplicarTramo
    \/ Devolver

SpecIrpf == InitIrpf /\ [][NextIrpf]_vars

InitIng == FifoOff /\ IrpfOff /\ IngInit

NextIng ==
    \/ IngresosVacio
    \/ IngresosSumar
    \/ IngresosDevolver

SpecIng == InitIng /\ [][NextIng]_vars

\* ------------------------------------------------------------ claims
\* notions the claims are stated with
RECURSIVE Disponible(_)
Disponible(q) ==
    IF q = <<>> THEN 0 ELSE q[1].cantidad_disponible + Disponible(Tail(q))

RECURSIVE CosteLotes(_)
CosteLotes(q) ==
    IF q = <<>> THEN 0
    ELSE q[1].cantidad_disponible * q[1].coste_unit + CosteLotes(Tail(q))

\* the sum, over the lots of q in queue order, of consumed x unit cost with
\* consumed = min(outstanding, remaining of the lot)
RECURSIVE CosteFIFO(_, _)
CosteFIFO(q, rest) ==
    IF rest <= 0 \/ q = <<>> THEN 0
    ELSE LET t == Min(rest, q[1].cantidad_disponible)
         IN  t * q[1].coste_unit + CosteFIFO(Tail(q), rest - t)

\* r is q with nothing but its head lot decremented or removed
SoloCabeza(q, r) ==
    \/ r = q
    \/ q # <<>> /\ r = Tail(q)
    \/ /\ q # <<>>
       /\ Len(r) = Len(q)
       /\ Tail(r) = Tail(q)
       /\ r[1].cantidad_disponible < q[1].cantidad_disponible
       /\ r[1] = [q[1] EXCEPT !.cantidad_disponible = r[1].cantidad_disponible]

\* r is q with one lot appended
UnoMas(q, r) == Len(r) = Len(q) + 1 /\ SubSeq(r, 1, Len(q)) = q

UltimaVenta == ventas[Len(ventas)]

\* C1: lots are consumed strictly in insertion order. In every step every
\* queue keeps all its lots but the head unchanged and in place: the only
\* lot whose quantity is ever reduced, and the only one removed, is the head
\* of the queue of the asset being disposed of, inside the while loop; so no
\* lot is reduced while a lot appended before it is still in the queue.
C1_FifoOrder ==
    [][\A c \in DOMAIN colas :
          /\ c \in DOMAIN colas'
          /\ \/ /\ SoloCabeza(colas[c], colas'[c])
                /\ colas'[c] # colas[c] => pc = "while" /\ c = Cripto(Fila)
             \/ UnoMas(colas[c], colas'[c])]_vars

\* C1 witness: a disposal that has taken all of a first lot and part of a
\* second one, which stays at the head
C1_Witness ==
    /\ pc = "while"
    /\ Len(cola_inicio) >= 2
    /\ Len(lotes_info) = 2
    /\ Len(colas[Cripto(Fila)]) = Len(cola_inicio) - 1
    /\ colas[Cripto(Fila)][1].cantidad_disponible
         < cola_inicio[2].cantidad_disponible

\* C2: the record a disposal emits has netProceeds = grossValue - fee,
\* totalAcquisitionCost = the sum over the lots consumed in queue order of
\* min(outstanding, remaining) x unit cost, and gainOrLoss = netProceeds -
\* totalAcquisitionCost; and lots of 2 units at 100 and 3 units at 200
\* followed by a disposal of 4 give cost 600 and leave one lot of 1 unit
\* at 200.
C2_RecordArithmetic ==
    [][pc = "while" /\ pc' = "iter" =>
        LET r == ventas'[Len(ventas')]
            c == Cripto(Fila)
        IN  /\ ventas' = Append(ventas, r)
            /\ r.valor_transmision_neto_eur
                 = r.valor_transmision_bruto_eur - r.comision_venta_eur
            /\ r.valor_transmision_bruto_eur = Float(Fila.valor_eur)
            /\ r.comision_venta_eur = Fila.fee_eur
            /\ r.coste_adquisicion_total_eur
                 = CosteFIFO(cola_inicio, Fila.cantidad)
            /\ r.ganancia_perdida_eur
                 = r.valor_transmision_neto_eur * CostDen
                   - r.coste_adquisicion_total_eur
            /\ ( /\ Len(cola_inicio) = 2
                 /\ cola_inicio[1].cantidad_disponible = 2 * Unit
                 /\ cola_inicio[1].coste_unit * Unit = 100 * CostDen
                 /\ cola_inicio[2].cantidad_disponible = 3 * Unit
                 /\ cola_inicio[2].coste_unit * Unit = 200 * CostDen
                 /\ Fila.cantidad = 4 * Unit )
               => /\ r.coste_adquisicion_total_eur = 600 * CostDen
                  /\ Len(colas'[c]) = 1
                  /\ colas'[c][1].cantidad_disponible = Unit
                  /\ colas'[c][1].coste_unit * Unit = 200 * CostDen]_vars

\* C2 witness: the worked example has been processed
C2_Witness ==
    /\ pc = "iter"
    /\ ventas # <<>>
    /\ Len(cola_inicio) = 2
    /\ cola_inicio[1].cantidad_disponible = 2 * Unit
    /\ cola_inicio[1].coste_unit * Unit = 100 * CostDen
    /\ cola_inicio[2].cantidad_disponible = 3 * Unit
    /\ cola_inicio[2].coste_unit * Unit = 200 * CostDen
    /\ UltimaVenta.cantidad_vendida = 4 * Unit
    /\ UltimaVenta.coste_adquisicion_total_eur = 600 * CostDen
    /\ Len(colas["btc"]) = 1
    /\ colas["btc"][1].cantidad_disponible = Unit

\* C3: a disposal whose quantity exceeds what the lots of its asset hold by
\* more than 1e-9 empties the queue, gets a note naming the unmatched
\* quantity (to 8 decimals) and the asset, costs what the matched lots cost
\* and is still recorded with gainOrLoss = netProceeds - that cost; a fully
\* matched disposal gets the empty note.
C3_Shortfall ==
    [][pc = "while" /\ pc' = "iter" =>
        LET r == ventas'[Len(ventas')]
            c == Cripto(Fila)
            falta == Fila.cantidad - Disponible(cola_inicio)
        IN  /\ falta > EPS =>
                /\ colas'[c] = <<>>
                /\ r.nota # <<>>
                /\ r.nota = <<"Sin historico para", Fmt8(falta), c>>
                /\ r.coste_adquisicion_total_eur = CosteLotes(cola_inicio)
                /\ r.ganancia_perdida_eur
                     = r.valor_transmision_neto_eur * CostDen
                       - CosteLotes(cola_inicio)
                /\ ventas' = Append(ventas, r)
            /\ falta <= 0 => r.nota = <<>>]_vars

\* C3 witness: a recorded disposal that matched some lots and fell short
C3_Witness ==
    /\ pc = "iter"
    /\ ventas # <<>>
    /\ cola_inicio # <<>>
    /\ UltimaVenta.cantidad_vendida - Disponible(cola_inicio) > EPS
    /\ UltimaVenta.nota # <<>>
    /\ UltimaVenta.coste_adquisicion_total_eur = CosteLotes(cola_inicio)
    /\ UltimaVenta.coste_adquisicion_total_eur > 0
    /\ colas[UltimaVenta.cripto] = <<>>

\* C4 (as claimed): no row makes calcular_fifo abort.
C4_NeverAborts == pc # "raised"

\* C5 (as claimed): the loop visits the rows in ascending date order, rows
\* of one date in their input order.
C5_StableDateOrder ==
    pc \notin {"sort", "off"} =>
        \A a, b \in 1..Len(df) :
            a < b =>
              /\ df_operaciones[df[a]].fecha <= df_operaciones[df[b]].fecha
              /\ df_operaciones[df[a]].fecha = df_operaciones[df[b]].fecha
                   => df[a] < df[b]

\* quantity <= 0, or an empty or missing asset identifier
Malformada(f) == f.cantidad <= 0 \/ f.cripto = None \/ f.cripto = Some("")

\* C6 (as claimed): a row with quantity <= 0 or with an empty or missing
\* asset is dropped: the loop moves on, no queue and no record changes.
C6_MalformedDropped ==
    [][(pc = "iter" /\ i <= Len(df) /\ Malformada(Fila)) =>
          /\ pc' \in {"iter", "raised"}
          /\ colas' = colas
          /\ ventas' = ventas]_vars

\* C7: when what is outstanding equals what the head lot holds, the
\* iteration removes that lot: the queue is its tail, one shorter, and holds
\* no lot of zero quantity.
C7_ExactExhaustion ==
    [][(/\ pc = "while"
        /\ pc' = "while"
        /\ restante > 0
        /\ colas[Cripto(Fila)] # <<>>
        /\ restante = colas[Cripto(Fila)][1].cantidad_disponible) =>
          LET c == Cripto(Fila)
          IN  /\ colas'[c] = Tail(colas[c])
              /\ Len(colas'[c]) = Len(colas[c]) - 1
              /\ restante' = 0
              /\ \A k \in 1..Len(colas'[c]) :
                    colas'[c][k].cantidad_disponible > 0]_vars

\* C7 witness: a disposal of exactly the head lot of a queue of two
C7_Witness ==
    /\ pc = "while"
    /\ Len(cola_inicio) = 2
    /\ cola_inicio[1].cantidad_disponible = Fila.cantidad
    /\ Len(lotes_info) = 1
    /\ restante = 0
    /\ colas[Cripto(Fila)] = Tail(cola_inicio)

\* the disposals among the first k rows visited that are valid rows
RECURSIVE VentasValidas(_)
VentasValidas(k) ==
    IF k = 0 THEN <<>>
    ELSE LET f == df_operaciones[df[k]]
         IN  IF f.tipo \in {"Venta", "Donacion"} /\ ~Malformada(f)
             THEN Append(VentasValidas(k - 1), f)
             ELSE VentasValidas(k - 1)

\* C8 (as claimed): between rows, ventas holds exactly one record per valid
\* Venta or Donacion visited so far, in that order, with the row's kind,
\* quantity, gross value and fee; and an Ingreso row changes no queue.
C8_OneRecordPerDisposal ==
    /\ [](pc = "iter" =>
            LET v == VentasValidas(i - 1)
            IN  /\ Len(ventas) = Len(v)
                /\ \A k \in 1..Len(v) :
                      /\ ventas[k].tipo_operacion = v[k].tipo
                      /\ ventas[k].cantidad_vendida = v[k].cantidad
                      /\ ventas[k].valor_transmision_bruto_eur
                           = Float(v[k].valor_eur)
                      /\ ventas[k].comision_venta_eur = v[k].fee_eur)
    /\ [][(pc = "iter" /\ i <= Len(df) /\ Fila.tipo \in {"Compra", "Ingreso"})
            => /\ ventas' = ventas
               /\ Fila.tipo = "Ingreso" =>
                    \A c \in DOMAIN colas : colas'[c] = colas[c]]_vars

Max(a, b) == IF a >= b THEN a ELSE b

\* the scale in closed form, in hundredths of a grid part
Escala(g) ==
    19 * Min(g, 6000 * Euro)
    + 21 * Min(Max(g - 6000 * Euro, 0), 44000 * Euro)
    + 23 * Min(Max(g - 50000 * Euro, 0), 150000 * Euro)
    + 26 * Max(g - 200000 * Euro, 0)

\* C9: for a total gain G >= 0, the sum of the column, the returned tax is
\* round(0.19 min(G, 6000) + 0.21 min(max(G - 6000, 0), 44000)
\* + 0.23 min(max(G - 50000, 0), 150000) + 0.26 max(G - 200000, 0), 2),
\* a function of G alone; G = 6000 gives 1140.00 and G = 6001 gives 1140.21.
C9_ProgressiveScale ==
    (pc_irpf = "done" /\ Suma(df_ganancias) >= 0) =>
        LET g == Suma(df_ganancias)
        IN  /\ salida.irpf_ganancias_eur = Round2(Escala(g), 100 * Centimo)
            /\ g = 6000 * Euro => salida.irpf_ganancias_eur = 114000
            /\ g = 6001 * Euro => salida.irpf_ganancias_eur = 114021

\* C9 witness: a total of 6001 reached from two rows, taxed in two brackets
C9_Witness ==
    /\ pc_irpf = "done"
    /\ Len(df_ganancias) = 2
    /\ Suma(df_ganancias) = 6001 * Euro
    /\ tramo = 3
    /\ salida.irpf_ganancias_eur = 114021

\* C10: when the sum of the column is negative or zero, or there is no row,
\* the tax is 0.0 and the base is that sum rounded to 2 decimals, 0.0 for no
\* row; a total of -500 gives tax 0.0 and base -500.00.
C10_NoTaxOnLoss ==
    (pc_irpf = "done" /\ (Suma(df_ganancias) <= 0 \/ df_ganancias = <<>>)) =>
        /\ salida.irpf_ganancias_eur = 0
        /\ salida.base_imponible_eur = Round2(Suma(df_ganancias), Centimo)
        /\ df_ganancias = <<>> => salida.base_imponible_eur = 0
        /\ Suma(df_ganancias) = -500 * Euro
             => salida.base_imponible_eur = -50000

\* C10 witness: a net loss of 500 and a fraction of a cent
C10_Witness ==
    /\ pc_irpf = "done"
    /\ Suma(df_ganancias) = -500 * Euro - 1
    /\ salida.irpf_ganancias_eur = 0
    /\ salida.base_imponible_eur = -50000

\* C11: calcular_irpf_ingresos returns as total the sum of the values of
\* the rows and as tax that total times 0.19 rounded to the nearest cent
\* (a tie to the even cent); no row gives total 0.0 and tax 0.00, and a
\* total of 1000 gives tax 190.00.
C11_LinearIncomeTax ==
    pc_ing = "done" =>
        LET total == salida_ing.total_ingresos_eur
            cuota == salida_ing.irpf_ingresos_eur
            exacta == 19 * total
            resto == exacta - cuota * 100 * Centimo
        IN  /\ total = SumaValores(df_ingresos)
            /\ 2 * resto <= 100 * Centimo
            /\ 2 * resto >= -(100 * Centimo)
            /\ (2 * resto = 100 * Centimo \/ 2 * resto = -(100 * Centimo))
                  => cuota % 2 = 0
            /\ df_ingresos = <<>> => total = 0 /\ cuota = 0
            /\ total = 1000 * Euro => cuota = 19000

\* C11 witness: two rows that add up to 1000, taxed 190.00
C11_Witness ==
    /\ pc_ing = "done"
    /\ Len(df_ingresos) = 2
    /\ df_ingresos[1] = Some(500 * Euro)
    /\ salida_ing.total_ingresos_eur = 1000 * Euro
    /\ salida_ing.irpf_ingresos_eur = 19000

\* C12: a second call of calcular_fifo on the same frame returns the
\* records of the first: each call starts its loop with no queue and no
\* record, whatever the call before left, and no step writes the frame it
\* was given.
C12_Idempotent ==
    /\ []((pc = "done" /\ pasada > 1) => resultado = resultado_previo)
    /\ []((pc = "iter" /\ i = 1) => colas = <<>> /\ ventas = <<>>)
    /\ [][df_operaciones' = df_operaciones]_vars

\* C12 witness: a second call has returned, the first one having left lots
\* in a queue and having returned a record
C12_Witness ==
    /\ pc = "done"
    /\ pasada = 2
    /\ resultado # <<>>
    /\ resultado_previo = resultado
    /\ \E c \in DOMAIN colas : colas[c] # <<>>

\* C13: processing a valid Compra appends exactly one lot at the tail of
\* the queue of its asset, holding the quantity of the row, the unit cost
\* (value + fee) / quantity and the date of the row; the lots already in
\* that queue, and every other queue, stay as they were, in order, and no
\* record is produced.
C13_AcquisitionAppends ==
    [][(/\ pc = "iter"
        /\ i <= Len(df)
        /\ Fila.tipo = "Compra"
        /\ ~Malformada(Fila)
        /\ Fila.valor_eur # None) =>
          LET c == Cripto(Fila)
              antes == IF c \in DOMAIN colas THEN colas[c] ELSE <<>>
              lote == colas'[c][Len(colas'[c])]
          IN  /\ c \in DOMAIN colas'
              /\ Len(colas'[c]) = Len(antes) + 1
              /\ SubSeq(colas'[c], 1, Len(antes)) = antes
              /\ lote.cantidad_disponible = Fila.cantidad
              /\ lote.coste_unit * Fila.cantidad
                   = (Fila.valor_eur[1] + Fila.fee_eur) * CostDen
              /\ lote.fecha_compra = Fila.fecha
              /\ \A k \in DOMAIN colas \ {c} :
                    k \in DOMAIN colas' /\ colas'[k] = colas[k]
              /\ DOMAIN colas' = DOMAIN colas \cup {c}
              /\ ventas' = ventas
              /\ pc' = "iter"
              /\ i' = i + 1]_vars

\* C13 witness: a purchase with a fee has been appended behind an older
\* lot of another unit cost
C13_Witness ==
    /\ pc = "iter"
    /\ i = 3
    /\ "btc" \in DOMAIN colas
    /\ Len(colas["btc"]) = 2
    /\ df_operaciones[df[2]].tipo = "Compra"
    /\ df_operaciones[df[2]].fee_eur > 0
    /\ colas["btc"][2].cantidad_disponible = df_operaciones[df[2]].cantidad
    /\ colas["btc"][2].coste_unit * 2 = 14 * CostDen
    /\ colas["btc"][1].coste_unit # colas["btc"][2].coste_unit

\* C14: every lot in every queue holds a quantity > 0.  A lot that an
\* iteration of the while loop brings down to 1e-9 or less leaves the queue
\* in that same iteration, a lot that stays keeps more than 1e-9; a queue
\* only ever loses its head or gains a new lot at its tail, and an
\* iteration writes its trace entry for the lot at the head of the queue,
\* so a lot that was removed is not written into the trace of any later
\* disposal.
C14_NoExhaustedLot ==
    /\ [](\A c \in DOMAIN colas : \A k \in 1..Len(colas[c]) :
            colas[c][k].cantidad_disponible > 0)
    /\ [][(pc = "while" /\ pc' = "while") =>
            LET c == Cripto(Fila)
                lote == colas[c][1]
                tomados == restante - restante'
                queda == lote.cantidad_disponible - tomados
            IN  /\ colas[c] # <<>>
                /\ tomados > 0
                /\ queda >= 0
                /\ queda <= EPS => colas'[c] = Tail(colas[c])
                /\ queda > EPS =>
                      /\ Len(colas'[c]) = Len(colas[c])
                      /\ colas'[c][1].cantidad_disponible = queda
                      /\ Tail(colas'[c]) = Tail(colas[c])
                /\ lotes_info' = Append(lotes_info,
                       <<Fmt8(tomados), lote.fecha_compra, lote.coste_unit>>)]_vars
    /\ [][\A c \in DOMAIN colas :
            \/ SoloCabeza(colas[c], colas'[c])
            \/ /\ UnoMas(colas[c], colas'[c])
               /\ pc = "iter"
               /\ Fila.tipo = "Compra"]_vars

\* C14 witness: a disposal left 1e-9 of the head lot, which was removed,
\* and the lot behind it is now the head
C14_Witness ==
    /\ pc = "while"
    /\ Len(cola_inicio) = 2
    /\ Len(lotes_info) = 1
    /\ cola_inicio[1].cantidad_disponible - Fila.cantidad = EPS
    /\ restante = 0
    /\ colas[Cripto(Fila)] = Tail(cola_inicio)

\* C15 (as claimed): every iteration of the while loop brings the
\* outstanding quantity to zero or removes the head lot, so a disposal
\* iterates at most once per lot its queue held when it started and the
\* loop ends; the for loop moves one row at a time, and the pass ends
\* having visited every row.
C15_Terminates ==
    /\ [][(pc = "while" /\ pc' = "while") =>
            \/ restante' = 0
            \/ colas'[Cripto(Fila)] = Tail(colas[Cripto(Fila)])]_vars
    /\ [](pc = "while" => Len(lotes_info) <= Len(cola_inicio))
    /\ [][pc # "sort" => (i' = i \/ i' = i + 1)]_vars
    /\ [](pc = "while" => <>(pc = "iter"))
    /\ <>(pc = "done" /\ i = Len(df) + 1)

\* the lots of a symbol, none if it has no queue yet
ColaDe(c) == IF c \in DOMAIN colas THEN colas[c] ELSE <<>>

\* C16: between rows, what the queue of a symbol holds is what was bought
\* of it minus what its disposals matched (their quantity minus their
\* shortfall), less at most 1e-9 for every lot removed; an iteration takes
\* no more than is outstanding and no more than the head lot holds, so a
\* disposal matches at most its quantity and at most what its queue held.
C16_QuantityConserved ==
    /\ [](pc \in {"iter", "done"} =>
            \A c \in Simbolos :
                /\ Disponible(ColaDe(c)) <= adquirido[c] - casado[c]
                /\ Disponible(ColaDe(c))
                     >= adquirido[c] - casado[c] - EPS * desalojos[c])
    /\ [][(pc = "while" /\ pc' = "while") =>
            LET tomados == restante - restante'
            IN  /\ tomados > 0
                /\ tomados <= restante
                /\ tomados <= colas[Cripto(Fila)][1].cantidad_disponible]_vars
    /\ [][(pc = "while" /\ pc' = "iter") =>
            /\ restante >= 0
            /\ Fila.cantidad - restante <= Fila.cantidad
            /\ Fila.cantidad - restante <= Disponible(cola_inicio)
            /\ Fila.cantidad - restante
                 = Min(Fila.cantidad, Disponible(cola_inicio))]_vars

\* C16 witness: a disposal matched part of a purchase and the 1e-9 left of
\* the lot went with its removal
C16_Witness ==
    /\ pc = "iter"
    /\ adquirido["btc"] > casado["btc"]
    /\ casado["btc"] > 0
    /\ desalojos["btc"] = 1
    /\ colas["btc"] = <<>>
    /\ adquirido["btc"] - casado["btc"] = EPS

\* what C17 says of every step but the shortfall note: the lots in the
\* queues were bought at rows visited before the current one; a disposal
\* starts with its own quantity outstanding and no cost, costs what the
\* lots its queue held at its start give in FIFO order, and with an empty
\* queue costs nothing and names no lot; the quantity it leaves unmatched
\* is dropped, and a later purchase adds its full quantity to the queue.
SoloLotesAnteriores ==
    /\ []((pc \in {"iter", "while"} /\ i <= Len(df)) =>
            \A c \in DOMAIN colas : \A k \in 1..Len(colas[c]) :
                colas[c][k].fecha_compra <= Fila.fecha)
    /\ [][(pc = "iter" /\ pc' = "while") =>
            /\ restante' = Fila.cantidad
            /\ coste_adq' = 0
            /\ lotes_info' = <<>>]_vars
    /\ [][(pc = "while" /\ pc' = "iter") =>
            LET r == ventas'[Len(ventas')]
                c == Cripto(Fila)
            IN  /\ ventas' = Append(ventas, r)
                /\ r.coste_adquisicion_total_eur
                     = CosteFIFO(cola_inicio, Fila.cantidad)
                /\ cola_inicio = <<>> =>
                      /\ r.coste_adquisicion_total_eur = 0
                      /\ r.lotes_origen_info = <<"N/A">>
                      /\ colas'[c] = <<>>
                /\ Fila.cantidad - Disponible(cola_inicio) > EPS =>
                      /\ restante' = 0
                      /\ colas'[c] = <<>>]_vars
    /\ [][(/\ pc = "iter"
            /\ i <= Len(df)
            /\ Fila.tipo = "Compra"
            /\ ~Malformada(Fila)
            /\ Fila.valor_eur # None) =>
              LET c == Cripto(Fila)
                  antes == IF c \in DOMAIN colas THEN colas[c] ELSE <<>>
              IN  /\ Disponible(colas'[c]) = Disponible(antes) + Fila.cantidad
                  /\ colas'[c][Len(colas'[c])].cantidad_disponible
                       = Fila.cantidad]_vars

\* C17 (as claimed): a disposal that its queue cannot match in full, be it
\* because the purchase comes later in date order, is recorded with a
\* shortfall note for the unmatched quantity.
C17_ShortfallAlwaysNoted ==
    /\ SoloLotesAnteriores
    /\ [][(pc = "while" /\ pc' = "iter") =>
            (Fila.cantidad - Disponible(cola_inicio) > 0
               => ventas'[Len(ventas')].nota # <<>>)]_vars

\* C17 (amended): the same, the note being written when the unmatched
\* quantity exceeds 1e-9; a disposal that leaves 1e-9 or less unmatched is
\* recorded without a note.
C17_NoCarryForward ==
    /\ SoloLotesAnteriores
    /\ [][(pc = "while" /\ pc' = "iter") =>
            LET falta == Fila.cantidad - Disponible(cola_inicio)
                nota == ventas'[Len(ventas')].nota
            IN  /\ falta > EPS =>
                      nota = <<"Sin historico para", Fmt8(falta), Cripto(Fila)>>
                /\ falta <= EPS => nota = <<>>]_vars

\* C17 witness: a disposal came before the only purchase of its asset; it
\* was recorded with a note and no cost, and the purchase then entered the
\* queue whole
C17_Witness ==
    /\ pc = "iter"
    /\ i = 3
    /\ Len(ventas) = 1
    /\ ventas[1].cripto = "btc"
    /\ ventas[1].nota # <<>>
    /\ ventas[1].coste_adquisicion_total_eur = 0
    /\ df_operaciones[df[1]].fecha < df_operaciones[df[2]].fecha
    /\ df_operaciones[df[2]].tipo = "Compra"
    /\ "btc" \in DOMAIN colas
    /\ Len(colas["btc"]) = 1
    /\ colas["btc"][1].cantidad_disponible = df_operaciones[df[2]].cantidad
    /\ restante = 0

\* the lower-cased symbol of a cell of the column cripto
EnMinusculas(c) ==
    IF c = None THEN "none"
    ELSE IF c[1] \in {"BTC", "btc"} THEN "btc" ELSE c[1]

\* C18: a step taken at a row leaves the queue of every symbol other than
\* the row's lower-cased one as it was, and creates no queue but that of
\* the row's symbol; a disposal works on the queue of its own symbol, and
\* its cost is what the lots of that queue give.
C18_QueuesIsolated ==
    /\ [][(pc \in {"iter", "while"} /\ i <= Len(df)) =>
            /\ \A k \in DOMAIN colas \ {EnMinusculas(Fila.cripto)} :
                  k \in DOMAIN colas' /\ colas'[k] = colas[k]
            /\ DOMAIN colas' \subseteq
                  DOMAIN colas \cup {EnMinusculas(Fila.cripto)}]_vars
    /\ [][(pc = "iter" /\ pc' = "while") =>
            cola_inicio' = ColaDe(EnMinusculas(Fila.cripto))]_vars
    /\ [][(pc = "while" /\ pc' = "iter") =>
            LET r == ventas'[Len(ventas')]
            IN  /\ r.cripto = EnMinusculas(Fila.cripto)
                /\ r.coste_adquisicion_total_eur
                     = CosteFIFO(cola_inicio, Fila.cantidad)]_vars

\* C18 witness: a disposal of one asset was matched in full by the lot of
\* that asset while a lot of another asset stayed in its queue
C18_Witness ==
    /\ pc = "iter"
    /\ Len(ventas) = 1
    /\ ventas[1].cripto = "eth"
    /\ ventas[1].coste_adquisicion_total_eur = 12 * CostDen
    /\ DOMAIN colas = {"btc", "eth"}
    /\ colas["eth"] = <<>>
    /\ Len(colas["btc"]) = 1
    /\ adquirido["btc"] = Disponible(colas["btc"])

====
